---- MODULE Spec2Model ----
(***************************************************************************)
(* Model of the image-ranking page (src/src/app/page-client.tsx) and of    *)
(* its forest worker (src/unnamed/part_000, lines 30-372).                 *)
(*                                                                         *)
(* A File is an opaque identity, modelled as a positive integer.  A float  *)
(* embedding is a tuple of integers; the embedding values of the model are *)
(* axis-aligned, so that cosineSimilarity is exact in integer arithmetic.  *)
(* A forest probability is an integer number of percent.                   *)
(***************************************************************************)
EXTENDS Integers, Sequences, FiniteSets, TLC

VARIABLES
    images,                 \* React state `images`: File[]
    imagePreference,        \* React state `imagePreference`: Map<File, boolean>
    sortingMethod,          \* React state `sortingMethod`: "cosine" | "forest"
    imagesWithEmbeddings,   \* React state of useEmbeddings: Map<File, embedding>
    imageForestPredictions, \* predictResult.data (keepPreviousData): Map<File, number>
    grid,                   \* the list the page renders: imagesSorted
    imageEmbedders,         \* useEmbeddings: the embedder pool is loaded
    finished,               \* React state `finished` of useEmbeddings
    runs,                   \* the effect runs of useEmbeddings that can still act
    effectDue,              \* the deps of the effect changed; it has not run yet
    pendingPicks,           \* directory traversals that have not called setImages yet
    picks,                  \* directories picked so far
    fileContent,            \* what the Embedding Provider answers for the Files of the runs
    forestTrainer,          \* PageClient: the forest worker proxy is loaded
    trainedForest,          \* forest worker: `let trainedForest`
    rf,                     \* forest worker: the call of rf.train that is running
    now,                    \* forest worker: the last value read from Date.now()
    workerQueue,            \* forest worker: calls posted and not served yet
    replies,                \* answers of the forest worker the page has not handled yet
    fw,                     \* forestWorkerResult: SWR entry of the current key
    pd,                     \* predictResult: SWR entry of the current key
    imageResizers,          \* useThumbnailImageBase: the resizer pool is loaded
    cacheRef,               \* cacheRef.current: Map<File, Promise<string>>
    imageUrlPromise,        \* the memo of the mounted ThumbnailImage of each File
    created                 \* calls of createThumbnail made so far for each File

coreVars == <<images, imagePreference, sortingMethod, imagesWithEmbeddings,
              imageForestPredictions>>

coordVars == <<imageEmbedders, finished, runs, effectDue, pendingPicks, picks,
               fileContent>>

forestVars == <<forestTrainer, trainedForest, rf, now, workerQueue, replies, fw, pd>>

thumbVars == <<imageResizers, cacheRef, imageUrlPromise, created>>

vars == <<coreVars, grid, coordVars, forestVars, thumbVars>>

----------------------------------------------------------------------------
(* Bounds of the model.                                                    *)

MaxFiles == 3

\* directories the user picks
MaxPicks == 2

\* files of one directory
MaxPickLen == 3

\* files of one directory of the page with both strategies
MaxForestPickLen == 2

\* the values Date.now() takes in the forest worker are 0..MaxClock
MaxClock == 1

\* the user acts while at most MaxInTransit messages are between the page
\* and the forest worker
MaxInTransit == 1

\* createThumbnail calls counted for one File
MaxCreated == 2

Files == 1..MaxFiles

\* floatEmbedding values the Embedding Provider returns in the model
EmbeddingValues == {<<1, 0>>, <<0, 2>>}

\* values of predictProba(features, 1), in percent
ProbaValues == {0, 100}

\* a Map<K, V> is a function whose domain is the set of keys present
EmptyMap == [f \in {} |-> 0]

MapsOver(S, V) == UNION {[D -> V] : D \in SUBSET S}

----------------------------------------------------------------------------
(* JavaScript values that reach the sort: undefined, a number, a boolean.  *)
(* A boolean carries its ToNumber value, which is what < and > compare.    *)

Undefined == [kind |-> "undefined", num |-> 0]

Num(n) == [kind |-> "number", num |-> n]

Bool(b) == [kind |-> "boolean", num |-> IF b THEN 1 ELSE 0]

\* Map.prototype.get: the value, or undefined when the key is absent
MapGet(m, k) == IF k \in DOMAIN m THEN Num(m[k]) ELSE Undefined

----------------------------------------------------------------------------
(* cosineSimilarity (page-client.tsx:27-42)                                *)

Sqrt(n) == CHOOSE r \in 0..n : r * r = n

RECURSIVE SumTo(_, _, _, _)
\* the for loop's accumulator of a[i] * b[i] over i = from .. Len(a)
SumTo(a, b, from, acc) ==
    IF from > Len(a) THEN acc
    ELSE SumTo(a, b, from + 1, acc + a[from] * b[from])

cosineSimilarity(vecA, vecB) ==
    LET dotProduct == SumTo(vecA, vecB, 1, 0)
        normA == SumTo(vecA, vecA, 1, 0)
        normB == SumTo(vecB, vecB, 1, 0)
    IN  dotProduct \div (Sqrt(normA) * Sqrt(normB))

----------------------------------------------------------------------------
(* lodash sortBy as imagesSorted calls it (page-client.tsx:358-363)        *)

\* compareAscending on undefined, numbers and booleans: undefined is
\* greater than every defined value.
compareAscending(value, other) ==
    IF value = other THEN 0
    ELSE LET valIsDefined == value.kind # "undefined"
             othIsDefined == other.kind # "undefined"
         IN  IF (valIsDefined /\ othIsDefined /\ value.num > other.num)
                \/ ~valIsDefined
             THEN 1
             ELSE IF (valIsDefined /\ othIsDefined /\ value.num < other.num)
                     \/ ~othIsDefined
                  THEN -1
                  ELSE 0

RECURSIVE compareMultipleFrom(_, _, _)
\* the first non-zero compareAscending of the criteria from index i on,
\* then the difference of the original indexes (what makes sortBy stable)
compareMultipleFrom(object, other, i) ==
    IF i > Len(object.criteria) THEN object.index - other.index
    ELSE LET result == compareAscending(object.criteria[i], other.criteria[i])
         IN  IF result # 0 THEN result
             ELSE compareMultipleFrom(object, other, i + 1)

compareMultiple(object, other) == compareMultipleFrom(object, other, 1)

RECURSIVE InsertSorted(_, _)
InsertSorted(x, s) ==
    IF s = <<>> THEN <<x>>
    ELSE IF compareMultiple(x, Head(s)) < 0 THEN <<x>> \o s
         ELSE <<Head(s)>> \o InsertSorted(x, Tail(s))

RECURSIVE baseSortBy(_)
\* Array.prototype.sort under compareMultiple, a strict total order on the
\* entries (the indexes differ), so the result does not depend on the
\* sorting algorithm
baseSortBy(s) ==
    IF s = <<>> THEN <<>>
    ELSE InsertSorted(Head(s), baseSortBy(Tail(s)))

Reverse(s) == [i \in 1..Len(s) |-> s[Len(s) + 1 - i]]

\* sortBy(collection, iteratees): criteria[i] holds the values of the
\* iteratees on collection[i]
sortBy(collection, criteria) ==
    LET entries == [i \in 1..Len(collection) |->
                       [criteria |-> criteria[i],
                        index |-> i,
                        value |-> collection[i]]]
        sorted == baseSortBy(entries)
    IN  [i \in 1..Len(sorted) |-> sorted[i].value]

----------------------------------------------------------------------------
(* imagesSorted (page-client.tsx:304-370)                                  *)

\* compact([...imagePreference.keys()].filter(liked === b)
\*            .map(file => imagesWithEmbeddings.get(file)))
\* as the set of the files that contribute an embedding
PreferredWithEmbedding(pref, emb, b) ==
    {f \in DOMAIN pref : pref[f] = b /\ f \in DOMAIN emb}

RECURSIVE SumCosine(_, _, _)
\* reduce((acc, e) => acc + cosineSimilarity(v, e.floatEmbedding), 0)
SumCosine(v, emb, S) ==
    IF S = {} THEN 0
    ELSE LET f == CHOOSE x \in S : TRUE
         IN  cosineSimilarity(v, emb[f]) + SumCosine(v, emb, S \ {f})

\* the score without the sum over the disliked images
ScoreLikedOnly(file, pref, emb) ==
    IF file \notin DOMAIN emb THEN Undefined
    ELSE Num(SumCosine(emb[file], emb, PreferredWithEmbedding(pref, emb, TRUE)))

Score(file, pref, emb) ==
    IF file \notin DOMAIN emb THEN Undefined
    ELSE Num(SumCosine(emb[file], emb, PreferredWithEmbedding(pref, emb, TRUE))
             - SumCosine(emb[file], emb, PreferredWithEmbedding(pref, emb, FALSE)))

ScoreRf(file, preds) == MapGet(preds, file)

\* scoreFinal without the test of the sorting method
ImageWithRankingCosineOnly(file, pref, emb, preds, method) ==
    LET score == Score(file, pref, emb)
        scoreRf == ScoreRf(file, preds)
    IN  [file |-> file, score |-> score, scoreRf |-> scoreRf,
         scoreFinal |-> score]

ImageWithRanking(file, pref, emb, preds, method) ==
    LET score == Score(file, pref, emb)
        scoreRf == ScoreRf(file, preds)
    IN  [file |-> file, score |-> score, scoreRf |-> scoreRf,
         scoreFinal |-> IF method = "forest" THEN scoreRf ELSE score]

\* the second iteratee without its negation
SortCriteriaNoNegation(pref, i) ==
    << Bool(i.file \in DOMAIN pref /\ pref[i.file] = TRUE),
       Bool(i.file \in DOMAIN pref /\ pref[i.file] = FALSE),
       i.scoreFinal >>

\* the three iteratees of the sortBy call
SortCriteria(pref, i) ==
    << Bool(i.file \in DOMAIN pref /\ pref[i.file] = TRUE),
       Bool(~(i.file \in DOMAIN pref /\ pref[i.file] = FALSE)),
       i.scoreFinal >>

\* the sort without the reverse() of its input
ImagesSortedOfInputOrder(imgs, pref, emb, preds, method) ==
    LET imagesWithRankings ==
            [k \in 1..Len(imgs) |-> ImageWithRanking(imgs[k], pref, emb, preds, method)]
    IN  Reverse(sortBy(imagesWithRankings,
                       [k \in 1..Len(imagesWithRankings) |->
                           SortCriteria(pref, imagesWithRankings[k])]))

ImagesSortedOf(imgs, pref, emb, preds, method) ==
    LET imagesWithRankings ==
            [k \in 1..Len(imgs) |-> ImageWithRanking(imgs[k], pref, emb, preds, method)]
        reversed == Reverse(imagesWithRankings)
    IN  Reverse(sortBy(reversed,
                       [k \in 1..Len(reversed) |-> SortCriteria(pref, reversed[k])]))

imagesSorted ==
    ImagesSortedOf(images, imagePreference, imagesWithEmbeddings,
                   imageForestPredictions, sortingMethod)

----------------------------------------------------------------------------
(* The forest worker (part_000:345-372) and the two SWR hooks that call it *)
(* (page-client.tsx:220-282).                                              *)

\* `let trainedForest;` before the first train
NoForest == [trained |-> FALSE]

\* no call of rf.train is running in the worker
NoTraining == [phase |-> "idle"]

\* SWR data `undefined`
NoData == [defined |-> FALSE]

\* forestWorkerResult entry: req is the id of the train call its fetcher
\* awaits (0: none), data what the fetcher returned
NoFetch == [req |-> 0, data |-> NoData]

\* predictResult entry: calls maps the ids of the predictProba calls its
\* fetcher awaits to their files, results holds the answers received,
\* data what the fetcher returned, failed that a call of it was rejected
NoBatch == [calls |-> EmptyMap, results |-> EmptyMap, data |-> NoData,
            failed |-> FALSE]

RangeOf(seq) == {seq[k] : k \in 1..Len(seq)}

RECURSIVE Fresh(_, _)
\* n identities that are not in use, in ascending order: the Files of a
\* directory are new objects, and Comlink gives every call its own id
Fresh(n, used) ==
    IF n = 0 THEN <<>>
    ELSE LET f == CHOOSE x \in 1..(Cardinality(used) + 1) : x \notin used
         IN  <<f>> \o Fresh(n - 1, used \cup {f})

\* the ids of the messages between the page and the forest worker
UsedIds(queue) == {queue[k].id : k \in 1..Len(queue)}
                      \cup {replies[k].id : k \in 1..Len(replies)}

RECURSIVE SeqOfSet(_)
\* the elements of a set of files in ascending order
SeqOfSet(S) ==
    IF S = {} THEN <<>>
    ELSE LET m == CHOOSE x \in S : \A y \in S : x <= y
         IN  <<m>> \o SeqOfSet(S \ {m})

\* lines 235-241: the labeled images with their embedding (<<>> when the
\* embedding map has none: `embedding` is then undefined).  A Map iterates
\* in insertion order; the entries are taken in the order of the File
\* identities here, and nothing of the model reads the order of a training
\* set.
LabeledImages(pref, emb) ==
    LET files == SeqOfSet(DOMAIN pref)
    IN  [k \in 1..Len(files) |->
            [file |-> files[k], liked |-> pref[files[k]],
             embedding |-> IF files[k] \in DOMAIN emb THEN emb[files[k]] ELSE <<>>]]

\* the guard without the test of line 243
TrainGuardNoEmbeddingTest(imgs, pref, emb, method) ==
    /\ Len(imgs) # 0
    /\ method = "forest"
    /\ DOMAIN pref # {}

\* lines 229-243: the fetcher goes on to call train
TrainGuard(imgs, pref, emb, method) ==
    /\ Len(imgs) # 0
    /\ method = "forest"
    /\ DOMAIN pref # {}
    /\ ~ \E k \in 1..Len(LabeledImages(pref, emb)) :
            LabeledImages(pref, emb)[k].embedding = <<>>

\* lines 246-249: the train call
TrainCall(id, pref, emb) ==
    LET labeledImages == LabeledImages(pref, emb)
    IN  [id |-> id, op |-> "train",
         trainingSet |-> [k \in 1..Len(labeledImages) |-> labeledImages[k].embedding],
         predictions |-> [k \in 1..Len(labeledImages) |->
                             IF labeledImages[k].liked THEN 1 ELSE 0]]

\* line 270: one predictProba(floatEmbedding, 1) call
PredictCall(id, features) ==
    [id |-> id, op |-> "predictProba", features |-> features, c |-> 1]

\* predictProba is read off the data before it is there
PredictReadyEarly(fwEntry, method, trainer) ==
    trainer /\ method = "forest"

\* lines 258-263: forestWorkerResult.data?.predictProba != null.  The data
\* of the hook is that of its current key: the key of another sortingMethod
\* has no data, and there is no key while forestTrainer is not loaded.
PredictReady(fwEntry, method, trainer) ==
    trainer /\ method = "forest" /\ fwEntry.data.defined

\* The hooks after a render with the given state.  st holds the forest-side
\* values [fw, pd, queue, preds] before the render; the result holds them
\* after the fetchers that the render starts have made their calls.
AfterForestHook(st, imgs, pref, emb, method, trainer) ==
    IF trainer /\ method = "forest" /\ ~st.fw.data.defined /\ st.fw.req = 0
          /\ TrainGuard(imgs, pref, emb, method)
    THEN LET id == Fresh(1, UsedIds(st.queue))[1]
         IN  [st EXCEPT !.fw = [req |-> id, data |-> NoData],
                        !.queue = Append(st.queue, TrainCall(id, pref, emb))]
    ELSE st

\* without keepPreviousData the hook returns undefined for a key that has
\* no data, and the page reads no prediction
DropPreviousData(preds) == EmptyMap

\* line 279, keepPreviousData: for a key that has no data the hook returns
\* the data it returned last
PreviousData(preds) == preds

\* lines 256-280: predictResult.  Its fetcher returns undefined (line 262)
\* for a key without forestWorkerResult.data.
AfterPredictHook(st, emb, method, trainer) ==
    IF ~PredictReady(st.fw, method, trainer)
    THEN [st EXCEPT !.preds = PreviousData(st.preds)]
    ELSE IF st.pd.data.defined
         THEN \* the key has data: it is what the hook returns
              [st EXCEPT !.preds = st.pd.data.map]
         ELSE IF DOMAIN st.pd.calls # {} \/ DOMAIN st.pd.results # {}
                    \/ st.pd.failed
              THEN \* the fetch of this key is in flight, or has failed
                   [st EXCEPT !.preds = PreviousData(st.preds)]
              ELSE IF DOMAIN emb = {}
              THEN \* Promise.all of no call: the fetcher returns an empty Map
                   [st EXCEPT !.pd.data = [defined |-> TRUE, map |-> EmptyMap],
                              !.preds = EmptyMap]
              ELSE \* lines 265-275: one call per entry of imagesWithEmbeddings
                   LET files == SeqOfSet(DOMAIN emb)
                       ids == Fresh(Len(files), UsedIds(st.queue))
                   IN  [st EXCEPT
                          !.preds = PreviousData(st.preds),
                          !.pd = [calls |-> [i \in RangeOf(ids) |->
                                              files[CHOOSE k \in 1..Len(ids) : ids[k] = i]],
                                  results |-> EmptyMap,
                                  data |-> NoData,
                                  failed |-> FALSE],
                          !.queue = st.queue \o
                                    [k \in 1..Len(files) |->
                                        PredictCall(ids[k], emb[files[k]])]]

AfterRender(st, imgs, pref, emb, method, trainer) ==
    AfterPredictHook(AfterForestHook(st, imgs, pref, emb, method, trainer),
                     emb, method, trainer)

\* the forest-side values as they stand
ForestSide == [fw |-> fw, pd |-> pd, queue |-> workerQueue,
               preds |-> imageForestPredictions]

\* the forest-side values if a new key were taken for the old one
ForestSideSameKey == [fw |-> fw, pd |-> pd, queue |-> workerQueue,
                      preds |-> imageForestPredictions]

\* the forest-side values if the batch of the old key stayed with the new one
ForestSideKeepsBatch == [fw |-> NoFetch, pd |-> pd, queue |-> workerQueue,
                         preds |-> imageForestPredictions]

\* the forest-side values once the key of forestWorkerResult has changed:
\* both hooks are on keys that have neither data nor a fetch
ForestSideNewKey == [fw |-> NoFetch, pd |-> NoBatch, queue |-> workerQueue,
                     preds |-> imageForestPredictions]

\* a render with the given page state, starting from forest-side values st
RenderWith(st, imgs, pref, emb, method, trainer) ==
    LET after == AfterRender(st, imgs, pref, emb, method, trainer)
    IN  /\ fw' = after.fw
        /\ pd' = after.pd
        /\ workerQueue' = after.queue
        /\ imageForestPredictions' = after.preds

----------------------------------------------------------------------------
(* useEmbeddings (page-client.tsx:46-116): the effect, p-map and the       *)
(* mapper.                                                                 *)

\* `{ concurrency: 10 }`
concurrency == 10

\* the Embedding Provider rejects createEmbedding for such a file
Corrupt == <<>>

Min(a, b) == IF a < b THEN a ELSE b

\* p-map without its concurrency option starts every item at once
NewRunNoLimit(imgs, embedders) ==
    [images |-> imgs, aborted |-> FALSE, isRejected |-> FALSE,
     next |-> Len(imgs) + 1,
     inflight |-> IF embedders THEN 1..Len(imgs) ELSE {}, ok |-> {},
     returnedBeforeAbort |-> FALSE]

\* An effect run: the images it maps, whether its AbortController is
\* aborted, p-map's isRejected, the index of the next item p-map starts,
\* the indexes whose createEmbedding call is in flight, and the indexes
\* whose mapper returned { file, embedding }.  returnedBeforeAbort records,
\* for an aborted run, whether a call of it had returned when it was aborted.
NewRun(imgs, embedders) ==
    LET started == IF embedders THEN Min(concurrency, Len(imgs)) ELSE 0
    IN  [images |-> imgs, aborted |-> FALSE, isRejected |-> FALSE,
         next |-> IF embedders THEN started + 1 ELSE Len(imgs) + 1,
         inflight |-> 1..started, ok |-> {},
         returnedBeforeAbort |-> FALSE]

\* a run that can still act: not superseded, or with calls in flight
RunAlive(run) == ~run.aborted \/ run.inflight # {}

\* An aborted run starts no call (line 76) and its results are never read
\* (lines 87 and 102): what is left of it are its calls in flight.
Abort(run) ==
    IF run.aborted THEN run
    ELSE [run EXCEPT !.aborted = TRUE,
                     !.returnedBeforeAbort =
                         (run.ok # {} \/ run.isRejected),
                     !.next = Len(run.images) + 1,
                     !.isRejected = FALSE,
                     !.ok = {}]

\* line 109: the cleanup aborts the run of the previous effect
AbortAll(rs) == SelectSeq([k \in 1..Len(rs) |-> Abort(rs[k])], RunAlive)

\* lines 104-106: new Map(compact(results).map(r => [r.file, r.embedding]))
ResultMap(run) ==
    [f \in {run.images[i] : i \in run.ok} |-> fileContent[f]]

\* p-map has resolved: every item was started and every mapper returned
PMapResolved(run) ==
    ~run.isRejected /\ run.next > Len(run.images) /\ run.inflight = {}

TotalInFlight(rs) ==
    LET RECURSIVE Sum(_)
        Sum(k) == IF k = 0 THEN 0 ELSE Cardinality(rs[k].inflight) + Sum(k - 1)
    IN  Sum(Len(rs))

\* the Files of the runs: the provider is asked about no other File
RunFiles == UNION {RangeOf(runs[r].images) : r \in 1..Len(runs)}

\* the Files the state refers to
Referenced ==
    RangeOf(images) \cup RunFiles \cup DOMAIN imagesWithEmbeddings
        \cup DOMAIN imagePreference \cup DOMAIN imageForestPredictions
        \cup {pd.calls[id] : id \in DOMAIN pd.calls} \cup DOMAIN pd.results
        \cup (IF pd.data.defined THEN DOMAIN pd.data.map ELSE {})
        \cup DOMAIN cacheRef

\* the contents of the Files no run holds are forgotten
ForgetFiles(contents) ==
    fileContent' = [f \in RunFiles' \cup RangeOf(images') |-> contents[f]]

\* lines 304-370 and 410: the render after a state change shows imagesSorted
Rerender ==
    grid' = ImagesSortedOf(images', imagePreference', imagesWithEmbeddings',
                           imageForestPredictions', sortingMethod')

\* "Read directory" (lines 375-406) is shown while images is empty
ClickReadDirectory ==
    /\ Len(images) = 0
    /\ picks < MaxPicks
    /\ picks' = picks + 1
    /\ pendingPicks' = pendingPicks + 1
    /\ UNCHANGED <<coreVars, grid, imageEmbedders, finished, runs, effectDue,
                   fileContent, forestVars, thumbVars>>

\* lines 399-401: a traversal ends and calls setImages with its files, not
\* seen before; contents[k] is what the provider will answer for file k
SetImages(contents) ==
    /\ pendingPicks > 0
    /\ pendingPicks' = pendingPicks - 1
    /\ images' = Fresh(Len(contents), Referenced)
    /\ effectDue' = TRUE
    /\ RenderWith(IF images' = images THEN ForestSide ELSE ForestSideNewKey,
                  images', imagePreference, imagesWithEmbeddings, sortingMethod,
                  forestTrainer)
    /\ UNCHANGED <<imagePreference, sortingMethod, imagesWithEmbeddings,
                   imageEmbedders, finished, runs, picks, forestTrainer,
                   trainedForest, rf, now,
                   replies, imageResizers, cacheRef, created>>
    /\ imageUrlPromise' = [f \in DOMAIN imageUrlPromise \cap RangeOf(images') |->
                               imageUrlPromise[f]]
    /\ Rerender
    /\ ForgetFiles([f \in DOMAIN fileContent \cup RangeOf(images') |->
                       IF f \in DOMAIN fileContent THEN fileContent[f]
                       ELSE LET k == CHOOSE j \in 1..Len(contents) : images'[j] = f
                            IN  contents[k]])

\* lines 55-63: the embedder pool resolves
LoadImageEmbedders ==
    /\ ~imageEmbedders
    /\ imageEmbedders' = TRUE
    /\ effectDue' = TRUE
    /\ UNCHANGED <<coreVars, grid, finished, runs, pendingPicks, picks,
                   fileContent, forestVars, thumbVars>>

\* lines 65-110: the cleanup of the previous effect, then the new effect up
\* to the first await that a worker answers.  Without embedders, or without
\* images, every mapper returns undefined at once and the empty map is
\* published in the same task.
RunEffect ==
    /\ effectDue
    /\ effectDue' = FALSE
    /\ finished' = 0
    /\ LET run == NewRun(images, imageEmbedders)
       IN  /\ runs' = Append(AbortAll(runs), run)
           /\ IF PMapResolved(run)
              THEN /\ imagesWithEmbeddings' = ResultMap(run)
                   /\ RenderWith(ForestSideNewKey, images, imagePreference,
                                 imagesWithEmbeddings', sortingMethod,
                                 forestTrainer)
              ELSE UNCHANGED <<imagesWithEmbeddings, imageForestPredictions,
                               workerQueue, fw, pd>>
    /\ UNCHANGED <<images, imagePreference, sortingMethod, imageEmbedders,
                   pendingPicks, picks, forestTrainer, trainedForest, rf, now,
                   replies, thumbVars>>
    /\ Rerender
    /\ ForgetFiles(fileContent)

\* p-map after a mapper has returned: next() starts the following item.
\* The mapper of an aborted run returns at line 76, so all its remaining
\* items are consumed at once.
PMapNext(run) ==
    IF run.isRejected \/ run.next > Len(run.images) THEN run
    ELSE IF run.aborted THEN [run EXCEPT !.next = Len(run.images) + 1]
         ELSE [run EXCEPT !.next = run.next + 1,
                          !.inflight = run.inflight \cup {run.next}]

\* the mapper goes on to count and return its result although the run is
\* aborted
MapperCountsAborted(run) == TRUE

\* line 87 lets the mapper go on: the run is not aborted
MapperCounts(run) == ~run.aborted

\* lines 102-106: p-map has resolved and the run is not aborted
Publishes(run) == PMapResolved(run) /\ ~run.aborted

\* lines 84-97 and 102-106: createEmbedding of item i of run r returns, or
\* throws when the file is corrupt
MapperReturn(r, i) ==
    /\ r \in 1..Len(runs)
    /\ i \in runs[r].inflight
    /\ LET run == runs[r]
           failed == fileContent[run.images[i]] = Corrupt
           counted == ~failed /\ MapperCounts(run)
           returned == [run EXCEPT !.inflight = run.inflight \ {i},
                                   !.ok = IF counted THEN run.ok \cup {i} ELSE run.ok,
                                   !.isRejected = ~run.aborted
                                                  /\ (run.isRejected \/ failed)]
           after == PMapNext(returned)
       IN  /\ runs' = SelectSeq([runs EXCEPT ![r] = after], RunAlive)
           /\ finished' = IF counted THEN finished + 1 ELSE finished
           /\ IF Publishes(after)
              THEN /\ imagesWithEmbeddings' = ResultMap(after)
                   /\ RenderWith(ForestSideNewKey, images, imagePreference,
                                 imagesWithEmbeddings', sortingMethod,
                                 forestTrainer)
              ELSE UNCHANGED <<imagesWithEmbeddings, imageForestPredictions,
                               workerQueue, fw, pd>>
    /\ UNCHANGED <<images, imagePreference, sortingMethod, imageEmbedders,
                   effectDue, pendingPicks, picks, forestTrainer, trainedForest, rf,
                   now, replies, thumbVars>>
    /\ ForgetFiles(fileContent)
    /\ Rerender

----------------------------------------------------------------------------
(* ThumbnailImage (page-client.tsx:122-180).  A grid cell that is in view   *)
(* mounts one ThumbnailImage for its File (lines 415-430).  The promise of *)
(* a File in cacheRef is pending while createThumbnail has not returned    *)
(* (the object URL of lines 161-166 lives that long), then resolved or     *)
(* rejected.  The memo of a cell is "undefined" when it was computed       *)
(* without resizers, "made" when its run put the promise into cacheRef and *)
(* "cached" when its run found the promise there; in both cases it is the  *)
(* promise of cacheRef.                                                    *)

\* the page before a thumbnail was rendered
NoThumbnails ==
    /\ imageResizers = FALSE
    /\ cacheRef = EmptyMap
    /\ imageUrlPromise = EmptyMap
    /\ created = EmptyMap

\* a rejected promise counted as absent
CacheHasNotRejected(cache, file) == file \in DOMAIN cache /\ cache[file] # "rejected"

\* line 157: cacheRef.current.has(file)
CacheHas(cache, file) == file \in DOMAIN cache

\* lines 125-137: the resizer pool resolves
LoadImageResizers ==
    /\ ~imageResizers
    /\ imageResizers' = TRUE
    /\ UNCHANGED <<coreVars, grid, coordVars, forestVars, cacheRef,
                   imageUrlPromise, created>>

\* lines 152-174: the memo of the cell of file is computed, at its mount or
\* at a later render.  The async function runs up to the end without a
\* pause: has, set and the call of createThumbnail are one step.
RenderThumbnail(file) ==
    /\ file \in RangeOf(images)
    /\ LET memo(v) == [f \in DOMAIN imageUrlPromise \cup {file} |->
                          IF f = file THEN v ELSE imageUrlPromise[f]]
           count == IF file \in DOMAIN created THEN created[file] ELSE 0
       IN  IF ~imageResizers
           THEN /\ imageUrlPromise' = memo("undefined")
                /\ UNCHANGED <<cacheRef, created>>
           ELSE IF CacheHas(cacheRef, file)
           THEN /\ imageUrlPromise' = memo("cached")
                /\ UNCHANGED <<cacheRef, created>>
           ELSE /\ count < MaxCreated
                /\ cacheRef' = [f \in DOMAIN cacheRef \cup {file} |->
                                   IF f = file THEN "pending" ELSE cacheRef[f]]
                /\ created' = [f \in DOMAIN created \cup {file} |->
                                  IF f = file THEN count + 1 ELSE created[f]]
                /\ imageUrlPromise' = memo("made")
    /\ UNCHANGED <<coreVars, grid, coordVars, forestVars, imageResizers>>

\* lines 415-430: the cell of file leaves the view
UnmountThumbnail(file) ==
    /\ file \in DOMAIN imageUrlPromise
    /\ imageUrlPromise' = [f \in DOMAIN imageUrlPromise \ {file} |->
                               imageUrlPromise[f]]
    /\ UNCHANGED <<coreVars, grid, coordVars, forestVars, imageResizers,
                   cacheRef, created>>

\* lines 163-167: createThumbnail returns or throws; the promise of
\* cacheRef settles and stays in the Map
CreateThumbnailReturns(file, ok) ==
    /\ file \in DOMAIN cacheRef
    /\ cacheRef[file] = "pending"
    /\ cacheRef' = [cacheRef EXCEPT ![file] = IF ok THEN "resolved" ELSE "rejected"]
    /\ UNCHANGED <<coreVars, grid, coordVars, forestVars, imageResizers,
                   imageUrlPromise, created>>

----------------------------------------------------------------------------
(* The ranking as a function of its inputs: every image list, label        *)
(* assignment, embedding map and prediction map over Files.                *)

NotRendered == <<[file |-> 0, score |-> Undefined, scoreRf |-> Undefined,
                  scoreFinal |-> Undefined]>>

\* The score of the strategy that is not active is computed and not used
\* (line 354): its map is drawn from the maps that are absent or the same
\* everywhere.
UniformMaps(V) == {EmptyMap} \cup {[f \in Files |-> v] : v \in V}

InitSort ==
    /\ \E n \in 0..MaxFiles : images = [k \in 1..n |-> k]
    /\ imagePreference \in MapsOver(Files, BOOLEAN)
    /\ sortingMethod \in {"cosine", "forest"}
    /\ IF sortingMethod = "cosine"
       THEN /\ imagesWithEmbeddings \in MapsOver(Files, EmbeddingValues)
            /\ imageForestPredictions \in UniformMaps(ProbaValues)
       ELSE /\ imagesWithEmbeddings \in UniformMaps(EmbeddingValues)
            /\ imageForestPredictions \in MapsOver(Files, ProbaValues)
    /\ grid = NotRendered
    /\ imageEmbedders = TRUE
    /\ finished = 0
    /\ runs = <<>>
    /\ effectDue = FALSE
    /\ pendingPicks = 0
    /\ picks = 0
    /\ fileContent = EmptyMap
    /\ forestTrainer = TRUE
    /\ trainedForest = NoForest
    /\ rf = NoTraining
    /\ now = 0
    /\ workerQueue = <<>>
    /\ replies = <<>>
    /\ fw = NoFetch
    /\ pd = NoBatch
    /\ NoThumbnails

Render ==
    /\ grid = NotRendered
    /\ grid' = imagesSorted
    /\ UNCHANGED <<coreVars, coordVars, forestVars, thumbVars>>

NextSort == Render

SpecSort == InitSort /\ [][NextSort]_vars

----------------------------------------------------------------------------
(* The page after its first render: no images, the effect has run once     *)
(* over the empty list, the workers are not loaded yet.                    *)

Init ==
    /\ images = <<>>
    /\ imagePreference = EmptyMap
    /\ sortingMethod = "cosine"
    /\ imagesWithEmbeddings = EmptyMap
    /\ imageForestPredictions = EmptyMap
    /\ grid = <<>>
    /\ imageEmbedders = FALSE
    /\ finished = 0
    /\ runs = <<NewRun(<<>>, FALSE)>>
    /\ effectDue = FALSE
    /\ pendingPicks = 0
    /\ picks = 0
    /\ fileContent = EmptyMap
    /\ forestTrainer = FALSE
    /\ trainedForest = NoForest
    /\ rf = NoTraining
    /\ now = 0
    /\ workerQueue = <<>>
    /\ replies = <<>>
    /\ fw = NoFetch
    /\ pd = NoBatch
    /\ NoThumbnails

\* the embedding coordinator alone: the user labels nothing and stays with
\* the similarity strategy
PickContents == UNION {[1..n -> {<<1, 0>>, Corrupt}] : n \in 0..MaxPickLen}

NextEmbed ==
    \/ ClickReadDirectory
    \/ \E contents \in PickContents : SetImages(contents)
    \/ LoadImageEmbedders
    \/ RunEffect
    \/ \E r \in 1..Len(runs) : \E i \in runs[r].inflight : MapperReturn(r, i)

SpecEmbed == Init /\ [][NextEmbed]_vars

\* the coordinator on a directory larger than `concurrency`: every file is
\* good, one directory has concurrency + 1 files and every other one a
\* single file
LargePickContents ==
    {[k \in 1..n |-> <<1, 0>>] :
        n \in IF \A r \in 1..Len(runs) : Len(runs[r].images) <= 1
              THEN {1, concurrency + 1} ELSE {1}}

NextLarge ==
    \/ ClickReadDirectory
    \/ \E contents \in LargePickContents : SetImages(contents)
    \/ LoadImageEmbedders
    \/ RunEffect
    \/ \E r \in 1..Len(runs) : \E i \in runs[r].inflight : MapperReturn(r, i)

SpecLarge == Init /\ [][NextLarge]_vars

\* the thumbnails alone: directories are read and their cells come into
\* view and leave it, before and after the resizers are loaded
NextThumb ==
    \/ ClickReadDirectory
    \/ \E n \in 0..MaxPickLen : SetImages([k \in 1..n |-> <<1, 0>>])
    \/ LoadImageResizers
    \/ \E file \in RangeOf(images) : RenderThumbnail(file)
    \/ \E file \in DOMAIN imageUrlPromise : UnmountThumbnail(file)
    \/ \E file \in DOMAIN cacheRef, ok \in BOOLEAN :
          CreateThumbnailReturns(file, ok)

SpecThumb == Init /\ [][NextThumb]_vars

----------------------------------------------------------------------------
(* The forest worker (part_000:345-369), the answers of its calls          *)
(* (page-client.tsx:245-252 and 265-277) and the user's controls           *)
(* (page-client.tsx:284-302 and 493-508).                                  *)

\* The forests rf.train can return for the data of a train call, each by
\* what its predictProba(features, 1) answers, in percent.  Every tree is
\* built from a bootstrap sample (part_000:270-273); when the data has one
\* class every leaf has that class alone (part_000:145-157).
ForestsFor(call) ==
    LET classes == RangeOf(call.predictions)
    IN  IF classes = {1} THEN {[e \in EmbeddingValues |-> 100]}
        ELSE IF classes = {0} THEN {[e \in EmbeddingValues |-> 0]}
        ELSE [EmbeddingValues -> ProbaValues]

\* part_000:349-365: the worker takes a train call: the new forest replaces
\* the current one and Date.now() is the version
ServeTrain ==
    /\ rf = NoTraining
    /\ workerQueue # <<>>
    /\ Head(workerQueue).op = "train"
    /\ LET call == Head(workerQueue)
       IN  /\ \E proba \in ForestsFor(call) :
                 trainedForest' = [trained |-> TRUE,
                                   trainingSet |-> call.trainingSet,
                                   predictions |-> call.predictions,
                                   proba |-> proba]
           /\ now' \in {now, Min(now + 1, MaxClock)}
           /\ replies' = Append(replies, [id |-> call.id, op |-> "train",
                                          ok |-> TRUE, value |-> now'])
    /\ workerQueue' = Tail(workerQueue)
    /\ UNCHANGED <<coreVars, grid, coordVars,
                   forestTrainer, rf, fw, pd, thumbVars>>

\* part_000:367-369: the worker takes a predictProba call and asks the
\* current forest; without a forest the call is rejected with a TypeError
ServePredict ==
    /\ rf = NoTraining
    /\ workerQueue # <<>>
    /\ Head(workerQueue).op = "predictProba"
    /\ LET call == Head(workerQueue)
       IN  replies' = Append(replies,
                             IF trainedForest.trained
                             THEN [id |-> call.id, op |-> "predictProba",
                                   ok |-> TRUE,
                                   value |-> trainedForest.proba[call.features]]
                             ELSE [id |-> call.id, op |-> "predictProba",
                                   ok |-> FALSE, value |-> 0])
    /\ workerQueue' = Tail(workerQueue)
    /\ UNCHANGED <<coreVars, grid, coordVars, forestTrainer, trainedForest, rf, now,
                   fw, pd, thumbVars>>

\* the answer belongs to a call of the fetch of the current predictResult key
PredictAwaited(reply) == reply.op = "predictProba" /\ reply.id \in DOMAIN pd.calls

\* The page takes an answer of the worker.  The answer of the train call of
\* the current forestWorkerResult key becomes the data of that key (lines
\* 245-252); the answer of a predictProba call of the current predictResult
\* key is kept, and with the last one the Map of lines 277 becomes the data
\* of that key; then the page renders.  An answer to the fetcher of another
\* key changes nothing the page reads.
HandleReply ==
    /\ replies # <<>>
    /\ replies' = Tail(replies)
    /\ LET reply == Head(replies)
       IN  IF reply.op = "train" /\ reply.id = fw.req
           THEN RenderWith([ForestSide EXCEPT
                               !.fw = [req |-> 0,
                                       data |-> [defined |-> TRUE,
                                                 version |-> reply.value]],
                               !.pd = NoBatch],
                           images, imagePreference, imagesWithEmbeddings,
                           sortingMethod, forestTrainer)
           ELSE IF PredictAwaited(reply)
           THEN LET file == pd.calls[reply.id]
                    calls == [i \in DOMAIN pd.calls \ {reply.id} |-> pd.calls[i]]
                    results == [f \in DOMAIN pd.results \cup {file} |->
                                   IF f = file THEN reply.value ELSE pd.results[f]]
                    batch ==
                        IF ~reply.ok
                        THEN [calls |-> EmptyMap, results |-> EmptyMap,
                              data |-> NoData, failed |-> TRUE]
                        ELSE IF DOMAIN calls = {}
                        THEN [calls |-> calls, results |-> results,
                              data |-> [defined |-> TRUE, map |-> results],
                              failed |-> FALSE]
                        ELSE [pd EXCEPT !.calls = calls, !.results = results]
                IN  RenderWith([ForestSide EXCEPT !.pd = batch],
                               images, imagePreference, imagesWithEmbeddings,
                               sortingMethod, forestTrainer)
           ELSE UNCHANGED <<imageForestPredictions, workerQueue, fw, pd>>
    /\ UNCHANGED <<images, imagePreference, sortingMethod, imagesWithEmbeddings,
                   coordVars, forestTrainer, trainedForest, rf, now, thumbVars>>
    /\ Rerender

\* lines 209-213: the forest worker proxy is there
LoadForestTrainer ==
    /\ ~forestTrainer
    /\ forestTrainer' = TRUE
    /\ RenderWith(ForestSideNewKey, images, imagePreference,
                  imagesWithEmbeddings, sortingMethod, TRUE)
    /\ UNCHANGED <<images, imagePreference, sortingMethod, imagesWithEmbeddings,
                   coordVars, trainedForest, rf, now, replies, thumbVars>>
    /\ Rerender

\* the user acts while few messages are on their way
UserMayAct == Len(workerQueue) + Len(replies) <= MaxInTransit

\* the callback sets the label whatever it was
SetPreference(pref, file, liked) ==
    [f \in DOMAIN pref \cup {file} |-> IF f = file THEN liked ELSE pref[f]]

\* lines 284-302: the same label again deletes the entry, another one sets it
TogglePreference(pref, file, liked) ==
    IF file \in DOMAIN pref /\ pref[file] = liked
    THEN [f \in DOMAIN pref \ {file} |-> pref[f]]
    ELSE [f \in DOMAIN pref \cup {file} |-> IF f = file THEN liked ELSE pref[f]]

\* lines 443-467: a thumbs-up or thumbs-down button of an image of the grid
UpdateImagePreference(file, liked) ==
    /\ UserMayAct
    /\ file \in RangeOf(images)
    /\ imagePreference' = TogglePreference(imagePreference, file, liked)
    /\ RenderWith(ForestSideNewKey, images, imagePreference',
                  imagesWithEmbeddings, sortingMethod, forestTrainer)
    /\ UNCHANGED <<images, sortingMethod, imagesWithEmbeddings, coordVars,
                   forestTrainer, trainedForest, rf, now, replies, thumbVars>>
    /\ Rerender

\* lines 493-499: "Clear selection", shown while there are images
ClearSelection ==
    /\ UserMayAct
    /\ Len(images) > 0
    /\ imagePreference' = EmptyMap
    /\ RenderWith(ForestSideNewKey, images, imagePreference',
                  imagesWithEmbeddings, sortingMethod, forestTrainer)
    /\ UNCHANGED <<images, sortingMethod, imagesWithEmbeddings, coordVars,
                   forestTrainer, trainedForest, rf, now, replies, thumbVars>>
    /\ Rerender

\* lines 501-508: the radio group, shown while there are images.  The keys
\* of the other sortingMethod are back with what SWR holds for them.
ToggleSortingMethod ==
    /\ UserMayAct
    /\ Len(images) > 0
    /\ sortingMethod' = IF sortingMethod = "cosine" THEN "forest" ELSE "cosine"
    /\ RenderWith(ForestSide, images, imagePreference, imagesWithEmbeddings,
                  sortingMethod', forestTrainer)
    /\ UNCHANGED <<images, imagePreference, imagesWithEmbeddings, coordVars,
                   forestTrainer, trainedForest, rf, now, replies, thumbVars>>
    /\ Rerender

\* the directories of the page with both strategies: every file is good
ForestPickContents ==
    {[k \in 1..n |-> IF k % 2 = 1 THEN <<1, 0>> ELSE <<0, 2>>] :
        n \in 1..MaxForestPickLen}

\* the page with both strategies: the user reads one directory
Next ==
    \/ (picks = 0 /\ ClickReadDirectory)
    \/ \E contents \in ForestPickContents : SetImages(contents)
    \/ LoadImageEmbedders
    \/ RunEffect
    \/ \E r \in 1..Len(runs) : \E i \in runs[r].inflight : MapperReturn(r, i)
    \/ LoadForestTrainer
    \/ \E file \in RangeOf(images) : \E liked \in BOOLEAN :
          UpdateImagePreference(file, liked)
    \/ ClearSelection
    \/ ToggleSortingMethod
    \/ ServeTrain
    \/ ServePredict
    \/ HandleReply

Spec == Init /\ [][Next]_vars

\* the steps of HandleReply: it takes the first answer that waits, whatever
\* the answer is, and no other action shortens replies
ReplyTaken == replies # <<>> /\ replies' = Tail(replies)

\* the worker serves the call at the head of its queue (one message event
\* after the other), and the page takes the answers that have arrived
SpecLive ==
    Spec /\ WF_vars(ServeTrain) /\ WF_vars(ServePredict) /\ WF_replies(ReplyTaken)

\* the page with both strategies when the images are replaced: the user
\* starts reading a second directory before the first one has been read,
\* and each directory has one file
SingleFileContents == {<<e>> : e \in EmbeddingValues}

NextReplace ==
    \/ ClickReadDirectory
    \/ \E contents \in SingleFileContents : SetImages(contents)
    \/ LoadImageEmbedders
    \/ RunEffect
    \/ \E r \in 1..Len(runs) : \E i \in runs[r].inflight : MapperReturn(r, i)
    \/ LoadForestTrainer
    \/ \E file \in RangeOf(images) : \E liked \in BOOLEAN :
          UpdateImagePreference(file, liked)
    \/ ClearSelection
    \/ ToggleSortingMethod
    \/ ServeTrain
    \/ ServePredict
    \/ HandleReply

SpecReplace == Init /\ [][NextReplace]_vars

----------------------------------------------------------------------------
(* The forest library of the worker (part_000:70-304).                     *)
(*                                                                         *)
(* A number the code gets by a division is kept as the fraction [num, den] *)
(* and fractions are compared by cross multiplication, so 1/2 and 2/4 are  *)
(* the same number and a comparison is the one of the exact values.  A     *)
(* feature index is the JavaScript index plus one.                         *)

Rat(n, d) == [num |-> n, den |-> d]

RatAdd(a, b) == Rat(a.num * b.den + b.num * a.den, a.den * b.den)

RatMul(a, b) == Rat(a.num * b.num, a.den * b.den)

\* a < b for fractions with den >= 0; Rat(1, 0) is above every number
RatLess(a, b) == a.num * b.den < b.num * a.den

RatEq(a, b) == a.num * b.den = b.num * a.den

\* `let bestGini = Infinity`
Infinity == Rat(1, 0)

\* `let bestSplit = null`
Null == [kind |-> "null"]

\* what `reduce` of an empty array without initial value throws
TypeError == [kind |-> "TypeError", str |-> ""]

\* a string value
Str(s) == [kind |-> "string", str |-> s]

\* the class labels object.train passes on: predictions[i] is 1 or 0
Labels == {0, 1}

\* the property key of a label: counts[label], distribution[d.label] and
\* distribution[className] convert the number to a string
Key(label) == IF label = 0 THEN "0" ELSE "1"

\* Object.keys of an object with integer keys: ascending numeric order
KeysOf(obj) == SelectSeq(<<"0", "1">>, LAMBDA k : k \in DOMAIN obj)

\* data.map((d) => d.label)
LabelsOf(data) == [k \in 1..Len(data) |-> data[k].label]

\* counts[label] after the forEach over labels
CountOf(labels, label) == Cardinality({k \in 1..Len(labels) : labels[k] = label})

RECURSIVE SumSquares(_, _)
\* the reduce of giniImpurity over Object.values(counts), times total^2
SumSquares(labels, S) ==
    IF S = {} THEN 0
    ELSE LET l == CHOOSE x \in S : TRUE
         IN  CountOf(labels, l) * CountOf(labels, l) + SumSquares(labels, S \ {l})

giniImpurity(labels) ==
    LET total == Len(labels)
    IN  IF total = 0 THEN Rat(1, 1)
        ELSE Rat(total * total - SumSquares(labels, RangeOf(labels)), total * total)

RECURSIVE SortedValues(_)
\* [...new Set(values)] of the sorted values of one feature
SortedValues(S) ==
    IF S = {} THEN <<>>
    ELSE LET least == CHOOSE x \in S : \A y \in S : x <= y
         IN  <<least>> \o SortedValues(S \ {least})

\* the candidate split of one feature at one threshold, with its gini
SplitAt(data, featureIndex, threshold) ==
    LET left == SelectSeq(data, LAMBDA d :
                    ~RatLess(threshold, Rat(d.features[featureIndex], 1)))
        right == SelectSeq(data, LAMBDA d :
                    RatLess(threshold, Rat(d.features[featureIndex], 1)))
    IN  [featureIndex |-> featureIndex, threshold |-> threshold,
         left |-> left, right |-> right,
         gini |-> RatAdd(RatMul(Rat(Len(left), Len(data)),
                                giniImpurity(LabelsOf(left))),
                         RatMul(Rat(Len(right), Len(data)),
                                giniImpurity(LabelsOf(right))))]

\* the inner loop with the upper value as the threshold, not the midpoint
SplitsOfFeatureAtValues(data, featureIndex) ==
    LET uniqueValues ==
            SortedValues({data[k].features[featureIndex] : k \in 1..Len(data)})
    IN  [i \in 1..(Len(uniqueValues) - 1) |->
            SplitAt(data, featureIndex,
                    Rat(uniqueValues[i + 1] + uniqueValues[i + 1], 2))]

\* the inner loop: the candidates of one feature in the order of the loop
SplitsOfFeature(data, featureIndex) ==
    LET uniqueValues ==
            SortedValues({data[k].features[featureIndex] : k \in 1..Len(data)})
    IN  [i \in 1..(Len(uniqueValues) - 1) |->
            SplitAt(data, featureIndex,
                    Rat(uniqueValues[i] + uniqueValues[i + 1], 2))]

RECURSIVE SplitsOf(_, _)
\* the outer loop: the candidates of all the features in the order of the loops
SplitsOf(data, featureIndices) ==
    IF featureIndices = <<>> THEN <<>>
    ELSE SplitsOfFeature(data, Head(featureIndices))
             \o SplitsOf(data, Tail(featureIndices))

RECURSIVE KeepBest(_, _, _)
\* `if (gini < bestGini) { bestGini = gini; bestSplit = ... }` over the
\* candidates: the first candidate of the least gini stays
KeepBest(splits, bestGini, bestSplit) ==
    IF splits = <<>> THEN bestSplit
    ELSE IF RatLess(Head(splits).gini, bestGini)
         THEN KeepBest(Tail(splits), Head(splits).gini, Head(splits))
         ELSE KeepBest(Tail(splits), bestGini, bestSplit)

findBestSplit(data, featureIndices) ==
    KeepBest(SplitsOf(data, featureIndices), Infinity, Null)

\* the distribution of a leaf: count / data.length for each label of data
Distribution(data) ==
    [key \in {Key(data[k].label) : k \in 1..Len(data)} |->
        Rat(Cardinality({k \in 1..Len(data) : Key(data[k].label) = key}),
            Len(data))]

\* featureIndices.sort(() => 0.5 - Math.random()).slice(0, numFeatures):
\* the comparator is random, so the sorted array is any arrangement of the
\* indices, and the slice keeps its first numFeatures entries
SelectedFeatures(length, numFeatures) ==
    LET kept == Min(numFeatures, length)
    IN  {s \in [1..kept -> 1..length] :
            \A i, j \in 1..kept : s[i] = s[j] => i = j}

\* the first test of buildTree without `depth === maxDepth`
StopsAtAnyDepth(data, depth, maxDepth, minSamplesSplit) ==
    \/ Len(data) < minSamplesSplit
    \/ Cardinality(RangeOf(LabelsOf(data))) = 1

\* the first test of buildTree
StopsAt(data, depth, maxDepth, minSamplesSplit) ==
    \/ depth = maxDepth
    \/ Len(data) < minSamplesSplit
    \/ Cardinality(RangeOf(LabelsOf(data))) = 1

RECURSIVE buildTree(_, _, _, _, _)
\* the nodes buildTree(data, depth) can return, one for each outcome of
\* the shuffles
buildTree(data, depth, maxDepth, minSamplesSplit, numFeatures) ==
    IF StopsAt(data, depth, maxDepth, minSamplesSplit)
    THEN {[distribution |-> Distribution(data)]}
    ELSE UNION {
           LET split == findBestSplit(data, selectedFeatures)
           IN  IF split = Null
               THEN {[distribution |-> Distribution(data)]}
               ELSE {[featureIndex |-> split.featureIndex,
                      threshold |-> split.threshold,
                      left |-> left, right |-> right] :
                        left \in buildTree(split.left, depth + 1, maxDepth,
                                           minSamplesSplit, numFeatures),
                        right \in buildTree(split.right, depth + 1, maxDepth,
                                            minSamplesSplit, numFeatures)}
           : selectedFeatures \in
                 SelectedFeatures(Len(data[1].features), numFeatures)}

\* createDecisionTree: the roots it can build
createDecisionTree(data, options) ==
    buildTree(data, 0, options.maxDepth, options.minSamplesSplit,
              options.numFeatures)

\* `node.featureIndex !== undefined`
IsInternal(node) == "featureIndex" \in DOMAIN node

RECURSIVE LeafReachedSwapped(_, _)
\* the while loop with the two branches exchanged
LeafReachedSwapped(node, features) ==
    IF ~IsInternal(node) THEN node
    ELSE IF ~RatLess(node.threshold, Rat(features[node.featureIndex], 1))
         THEN LeafReachedSwapped(node.right, features)
         ELSE LeafReachedSwapped(node.left, features)

RECURSIVE LeafReached(_, _)
\* the while loop of predict, predictProba and predictProbaAll
LeafReached(node, features) ==
    IF ~IsInternal(node) THEN node
    ELSE IF ~RatLess(node.threshold, Rat(features[node.featureIndex], 1))
         THEN LeafReached(node.left, features)
         ELSE LeafReached(node.right, features)

RECURSIVE ReduceKeys(_, _, _)
\* keys.reduce((a, b) => (obj[a] > obj[b] ? a : b)) from the accumulator a
ReduceKeys(keys, obj, a) ==
    IF keys = <<>> THEN a
    ELSE ReduceKeys(Tail(keys), obj,
                    IF RatLess(obj[Head(keys)], obj[a]) THEN a ELSE Head(keys))

\* Object.keys(obj).reduce(...) without initial value: the key of the
\* greatest value as a string, a TypeError when obj has no key
ArgMaxKey(obj) ==
    LET keys == KeysOf(obj)
    IN  IF keys = <<>> THEN TypeError
        ELSE Str(ReduceKeys(Tail(keys), obj, Head(keys)))

treePredict(root, features) ==
    ArgMaxKey(LeafReached(root, features).distribution)

\* node.distribution[className] || 0
treePredictProba(root, features, className) ==
    LET distribution == LeafReached(root, features).distribution
    IN  IF Key(className) \in DOMAIN distribution
        THEN distribution[Key(className)]
        ELSE Rat(0, 1)

treePredictProbaAll(root, features) == LeafReached(root, features).distribution

\* the bootstrap samples of data: data.length draws of
\* data[Math.floor(Math.random() * data.length)]
Bootstrap(data) ==
    {[k \in 1..Len(data) |-> data[draw[k]]] :
        draw \in [1..Len(data) -> 1..Len(data)]}

\* the votes of the trees: counts[p] for each predicted key p
Votes(trees, features) ==
    LET predictions == [t \in 1..Len(trees) |-> treePredict(trees[t], features)]
    IN  [key \in {predictions[t].str : t \in 1..Len(trees)} |->
            Rat(Cardinality({t \in 1..Len(trees) : predictions[t].str = key}), 1)]

\* predict of the forest: a tree whose predict throws makes it throw
forestPredict(trees, features) ==
    IF \E t \in 1..Len(trees) : treePredict(trees[t], features) = TypeError
    THEN TypeError
    ELSE ArgMaxKey(Votes(trees, features))

RECURSIVE SumProba(_, _, _, _)
\* probas.reduce((sum, proba) => sum + proba, 0) over the trees from t on
SumProba(trees, features, className, t) ==
    IF t > Len(trees) THEN Rat(0, 1)
    ELSE RatAdd(treePredictProba(trees[t], features, className),
                SumProba(trees, features, className, t + 1))

forestPredictProba(trees, features, className) ==
    LET sum == SumProba(trees, features, className, 1)
    IN  Rat(sum.num, sum.den * Len(trees))

----------------------------------------------------------------------------
(* The worker while it trains: createRandomForest(options).train(data)     *)
(* (part_000:243-304) as object.train runs it (part_000:349-365), one      *)
(* iteration of the loop over the trees at a time.  No other call of the   *)
(* worker is served between the iterations: train is synchronous.          *)

\* points of a training set
MaxData == 3

\* trees of a forest
MaxTrees == 2

\* the greatest maxDepth
MaxDepth == 2

\* the greatest minSamplesSplit
MaxMinSamplesSplit == 3

\* the feature vectors of the training sets and of the predictProba calls
FeatureVectors == {<<1, 0>>, <<0, 2>>, <<1, 2>>}

DataPoints == [features : FeatureVectors, label : Labels]

\* the place of a point in the enumeration of DataPoints
PointRank(d) == 2 * (3 * d.features[1] + d.features[2]) + d.label

\* the training sets: up to MaxData points, listed in the order of
\* DataPoints (the bootstrap samples of a training set take every order)
Datasets ==
    UNION {{data \in [1..n -> DataPoints] :
               \A i, j \in 1..n : i < j => PointRank(data[i]) <= PointRank(data[j])} :
           n \in 0..MaxData}

\* the options of createRandomForest
Options ==
    [numTrees : 1..MaxTrees, maxDepth : 0..MaxDepth,
     minSamplesSplit : 2..MaxMinSamplesSplit, numFeatures : 1..2]

\* a leaf whose data has the label 1 only
LeafOfOnes == [distribution |-> Distribution(<<[features |-> <<1, 0>>, label |-> 1]>>)]

\* the forest of an earlier train with the same options on a training set
\* of one point with label 1: every tree is one leaf
EarlierForest(options) ==
    [trained |-> TRUE, trees |-> [t \in 1..options.numTrees |-> LeafOfOnes]]

InitForest ==
    /\ images = <<>>
    /\ imagePreference = EmptyMap
    /\ sortingMethod = "forest"
    /\ imagesWithEmbeddings = EmptyMap
    /\ imageForestPredictions = EmptyMap
    /\ grid = <<>>
    /\ imageEmbedders = TRUE
    /\ finished = 0
    /\ runs = <<>>
    /\ effectDue = FALSE
    /\ pendingPicks = 0
    /\ picks = 0
    /\ fileContent = EmptyMap
    /\ forestTrainer = TRUE
    /\ \E options \in Options, data \in Datasets :
          /\ rf = [phase |-> "posted", options |-> options, data |-> data,
                   trees |-> <<>>]
          /\ trainedForest \in {NoForest, EarlierForest(options)}
    /\ now = 0
    /\ workerQueue = <<>>
    /\ replies = <<>>
    /\ fw = NoFetch
    /\ pd = NoBatch
    /\ NoThumbnails

\* part_000:349-356 and 255-256: train is entered, `trees` is empty
CallTrain ==
    /\ rf.phase = "posted"
    /\ rf' = [rf EXCEPT !.phase = "running"]
    /\ UNCHANGED <<coreVars, grid, coordVars, forestTrainer, trainedForest, now,
                   workerQueue, replies, fw, pd, thumbVars>>

\* the test of the loop over the trees without its last iteration
LoopEndsEarly(r) == Len(r.trees) >= r.options.numTrees - 1

\* `i < numTrees` is false
LoopEnds(r) == Len(r.trees) >= r.options.numTrees

\* part_000:257-271: one iteration draws the bootstrap sample and pushes
\* the tree built from it
BuildTree ==
    /\ rf.phase = "running"
    /\ ~LoopEnds(rf)
    /\ \E baggedData \in Bootstrap(rf.data) :
          \E root \in createDecisionTree(baggedData, rf.options) :
             rf' = [rf EXCEPT !.trees = Append(@, root)]
    /\ UNCHANGED <<coreVars, grid, coordVars, forestTrainer, trainedForest, now,
                   workerQueue, replies, fw, pd, thumbVars>>

\* part_000:273-302, 357 and 364: train returns the forest of the trees
\* built, object.train assigns it to trainedForest and answers the version
ReturnForest ==
    /\ rf.phase = "running"
    /\ LoopEnds(rf)
    /\ trainedForest' = [trained |-> TRUE, trees |-> rf.trees]
    /\ rf' = [rf EXCEPT !.phase = "returned"]
    /\ now' \in {now, Min(now + 1, MaxClock)}
    /\ replies' = Append(replies, [op |-> "train", ok |-> TRUE, value |-> now'])
    /\ UNCHANGED <<coreVars, grid, coordVars,
                   forestTrainer, workerQueue, fw, pd, thumbVars>>

\* part_000:367-369 and 285-290: a predictProba call is served by the
\* current forest; the worker serves it before or after train, not
\* while train runs
ForestPredictProba ==
    /\ rf.phase # "running"
    /\ trainedForest.trained
    /\ replies = <<>>
    /\ \E features \in FeatureVectors :
          replies' = <<[op |-> "predictProba", ok |-> TRUE,
                        value |-> forestPredictProba(trainedForest.trees,
                                                     features, 1)]>>
    /\ UNCHANGED <<coreVars, grid, coordVars, forestTrainer, trainedForest, rf,
                   now, workerQueue, fw, pd, thumbVars>>

\* the caller takes the oldest answer
TakeAnswer ==
    /\ replies # <<>>
    /\ replies' = Tail(replies)
    /\ UNCHANGED <<coreVars, grid, coordVars, forestTrainer, trainedForest, rf,
                   now, workerQueue, fw, pd, thumbVars>>

NextForest ==
    \/ CallTrain
    \/ BuildTree
    \/ ReturnForest
    \/ ForestPredictProba
    \/ TakeAnswer

SpecForest == InitForest /\ [][NextForest]_vars

\* train is one synchronous call: once it runs, the next iteration of its
\* loop and its return are taken
SpecForestLive ==
    SpecForest /\ WF_vars(BuildTree) /\ WF_vars(ReturnForest)

----------------------------------------------------------------------------
(* Labels                                                                  *)

\* lines 312-313 and 284-302: Map.get(file) is true, false or undefined
LabelIn(pref, f) ==
    IF f \notin DOMAIN pref THEN "unlabeled"
    ELSE IF pref[f] THEN "liked" ELSE "disliked"

Label(f) == LabelIn(imagePreference, f)

\* position of a label group in the displayed order
GroupRank(f) == CASE Label(f) = "liked" -> 0
                  [] Label(f) = "unlabeled" -> 1
                  [] Label(f) = "disliked" -> 2

Rendered == grid # NotRendered

HasScore(i) == i.scoreFinal.kind # "undefined"

----------------------------------------------------------------------------
(* C1: in the rendered order every liked image comes before every          *)
(* unlabeled image and every unlabeled image before every disliked image,  *)
(* whatever the scores are.                                                *)
C1_GroupOrder ==
    Rendered =>
        \A a, b \in 1..Len(grid) :
            a < b => GroupRank(grid[a].file) <= GroupRank(grid[b].file)

\* a rendered list with the three groups in which the disliked image has a
\* score above the liked image's score and the unlabeled one has no score
C1_Witness ==
    /\ Rendered
    /\ Len(grid) = 3
    /\ Label(grid[1].file) = "liked"
    /\ Label(grid[2].file) = "unlabeled"
    /\ Label(grid[3].file) = "disliked"
    /\ HasScore(grid[1]) /\ HasScore(grid[3]) /\ ~HasScore(grid[2])
    /\ grid[3].scoreFinal.num > grid[1].scoreFinal.num

C2_UnscoredFirst ==
    Rendered =>
        \A a, b \in 1..Len(grid) :
            (/\ a < b
             /\ Label(grid[a].file) = Label(grid[b].file)
             /\ HasScore(grid[a]))
            => HasScore(grid[b])

----------------------------------------------------------------------------
(* Claims about the embedding coordinator                                  *)

\* the run of the latest effect
Cur == runs[Len(runs)]

\* the latest effect ran for the current images with the embedders loaded
CurIsCurrent == ~effectDue /\ imageEmbedders /\ Len(images) > 0

\* every call the run has made has returned and it will make no other
Settled(run) ==
    run.inflight = {} /\ (run.isRejected \/ run.next > Len(run.images))

\* the provider has failed for an image of the run
SomeFailed(run) ==
    \E i \in 1..(run.next - 1) :
        i \notin run.inflight /\ fileContent[run.images[i]] = Corrupt

(* C3: if the provider fails for some images of a batch, then once the     *)
(* other calls have returned the published embedding map contains exactly  *)
(* the images whose call succeeded.                                        *)
C3_FailedItemsOnlyMissing ==
    (CurIsCurrent /\ Settled(Cur) /\ SomeFailed(Cur))
        => DOMAIN imagesWithEmbeddings = {Cur.images[i] : i \in Cur.ok}

(* C4: once every image of the current batch has been processed, whether   *)
(* its call succeeded or failed, finished / images.length is 1.            *)
C4_ProgressReachesOne ==
    (CurIsCurrent /\ Cur.inflight = {} /\ Cur.next > Len(images))
        => finished = Len(images)

(* C5: a run superseded before any of its calls has returned never         *)
(* publishes: its completions change neither finished nor the embedding    *)
(* map, the map never holds one of its images, and once the run that       *)
(* replaced it has resolved the map holds images of the current set only.  *)
C5_SupersededRunSilent ==
    /\ [][\A r \in 1..Len(runs) : \A i \in runs[r].inflight :
            (runs[r].aborted /\ MapperReturn(r, i))
                => /\ finished' = finished
                   /\ imagesWithEmbeddings' = imagesWithEmbeddings]_vars
    /\ [](\A r \in 1..Len(runs) :
            runs[r].aborted
                => RangeOf(runs[r].images) \cap DOMAIN imagesWithEmbeddings = {})
    /\ []((CurIsCurrent /\ PMapResolved(Cur))
            => /\ DOMAIN imagesWithEmbeddings \subseteq RangeOf(images)
               /\ DOMAIN imagesWithEmbeddings # {})

\* A was superseded before any return, one of its calls has returned since
\* and another is still in flight, and B has published its map
C5_Witness ==
    /\ CurIsCurrent /\ PMapResolved(Cur)
    /\ DOMAIN imagesWithEmbeddings = RangeOf(images)
    /\ finished = Len(images)
    /\ \E r \in 1..Len(runs) :
          /\ runs[r].aborted /\ ~runs[r].returnedBeforeAbort
          /\ runs[r].inflight # {}
          /\ Cardinality(runs[r].inflight) < Len(runs[r].images)

(* C6, as stated: at most 10 createEmbedding calls are in flight at the    *)
(* same time, also after the image set was replaced while calls of the     *)
(* previous run had not returned.                                          *)
C6_TotalInFlightBounded == TotalInFlight(runs) <= concurrency

(* C6, amended: each run has at most 10 calls in flight and a superseded   *)
(* run starts no new call.                                                 *)
C6_InFlightPerRun ==
    /\ [](\A r \in 1..Len(runs) : Cardinality(runs[r].inflight) <= concurrency)
    /\ [][\A r \in 1..Len(runs) :
            (r <= Len(runs') /\ runs[r].aborted /\ runs'[r].images = runs[r].images)
                => runs'[r].inflight \subseteq runs[r].inflight]_vars

\* a run holds back an item with 10 calls in flight while a superseded run
\* still has calls in flight
C6_Witness ==
    /\ Cardinality(Cur.inflight) = concurrency
    /\ Cur.next <= Len(Cur.images)
    /\ \E r \in 1..Len(runs) : runs[r].aborted /\ runs[r].inflight # {}

----------------------------------------------------------------------------
(* Claims about the labels and about the forest worker                     *)

\* the files the page knows
KnownFiles == RangeOf(images) \cup DOMAIN imagePreference

(* C7: every image has exactly one of the labels liked, disliked and       *)
(* unlabeled; updateImagePreference(file, x) makes an image labeled x      *)
(* unlabeled and an image with another label x, and changes the label of   *)
(* no other image; "Clear selection" makes every image unlabeled.          *)
C7_OneLabelToggled ==
    /\ [](\A f \in KnownFiles :
            Cardinality({l \in {"liked", "disliked", "unlabeled"} :
                            Label(f) = l}) = 1)
    /\ [][\A file \in RangeOf(images) : \A liked \in BOOLEAN :
            UpdateImagePreference(file, liked)
                => LET x == IF liked THEN "liked" ELSE "disliked"
                   IN  /\ LabelIn(imagePreference', file) =
                              IF Label(file) = x THEN "unlabeled" ELSE x
                       /\ \A g \in (KnownFiles \cup DOMAIN imagePreference') \ {file} :
                              LabelIn(imagePreference', g) = Label(g)]_vars
    /\ [][ClearSelection
            => \A g \in KnownFiles \cup DOMAIN imagePreference' :
                  LabelIn(imagePreference', g) = "unlabeled"]_vars

\* a forest was trained when the first image was liked and the second one
\* disliked; since then the first has become disliked and the second
\* unlabeled
C7_Witness ==
    /\ Len(images) = 2
    /\ trainedForest.trained
    /\ trainedForest.predictions = <<1, 0>>
    /\ Label(images[1]) = "disliked"
    /\ Label(images[2]) = "unlabeled"

(* C8: a train call is issued only when the strategy is 'forest', the      *)
(* image list is not empty, some image is labeled and every labeled image  *)
(* has an embedding; the worker's forest changes only when the worker      *)
(* takes a train call that was issued.                                     *)
C8_TrainOnlyWhenReady ==
    /\ [][\A k \in 1..Len(workerQueue') :
            (k > Len(workerQueue) /\ workerQueue'[k].op = "train")
                => /\ sortingMethod' = "forest"
                   /\ Len(images') > 0
                   /\ DOMAIN imagePreference' # {}
                   /\ DOMAIN imagePreference' \subseteq DOMAIN imagesWithEmbeddings'
                   /\ Len(workerQueue'[k].trainingSet) =
                          Cardinality(DOMAIN imagePreference')
                   /\ \A j \in 1..Len(workerQueue'[k].trainingSet) :
                          workerQueue'[k].trainingSet[j] \in EmbeddingValues]_vars
    /\ [][trainedForest' # trainedForest
            => /\ workerQueue # <<>>
               /\ Head(workerQueue).op = "train"
               /\ workerQueue' = Tail(workerQueue)]_vars

\* a train call for two labeled images is on its way while the worker
\* holds the forest of an earlier train call
C8_Witness ==
    /\ trainedForest.trained
    /\ \E k \in 1..Len(workerQueue) :
          /\ workerQueue[k].op = "train"
          /\ Len(workerQueue[k].trainingSet) = 2

\* the strategy is 'forest' and a labeled image has no embedding
SkipState ==
    /\ sortingMethod = "forest"
    /\ \E f \in DOMAIN imagePreference : f \notin DOMAIN imagesWithEmbeddings

(* C9: in the learned strategy, while a labeled image has no embedding,    *)
(* no train call is made for the current inputs and the forest scores the  *)
(* page orders by stay what they were: no step that ends in such a state   *)
(* clears or replaces them.                                                *)
C9_SkipKeepsScores ==
    /\ [](SkipState => (fw.req = 0 /\ ~fw.data.defined))
    /\ [][SkipState'
            => /\ imageForestPredictions' = imageForestPredictions
               /\ \A k \in 1..Len(workerQueue') :
                     k > Len(workerQueue) => workerQueue'[k].op # "train"]_vars

\* the images were replaced after a prediction batch was shown: the label
\* of an image of the first directory has no embedding any more, the
\* scores of that batch are still the ones in use, and an answer to a later
\* predictProba call is on its way to the page
C9_Witness ==
    /\ SkipState
    /\ DOMAIN imageForestPredictions # {}
    /\ DOMAIN imageForestPredictions \cap RangeOf(images) = {}
    /\ DOMAIN imagesWithEmbeddings = RangeOf(images)
    /\ replies # <<>>
    /\ Head(replies).op = "predictProba"

(* C10: a predictProba call is on its way to the worker only when the      *)
(* worker holds a forest, and no predictProba call was rejected for lack   *)
(* of one.                                                                 *)
C10_PredictAfterTrain ==
    /\ \A k \in 1..Len(workerQueue) :
          workerQueue[k].op = "predictProba" => trainedForest.trained
    /\ \A k \in 1..Len(replies) : replies[k].ok

\* the worker has answered a predictProba call and the next one is waiting
C10_Witness ==
    /\ workerQueue # <<>>
    /\ Head(workerQueue).op = "predictProba"
    /\ replies # <<>>
    /\ Head(replies).op = "predictProba"
    /\ Head(replies).ok

----------------------------------------------------------------------------
(* Claims about the forest worker's library                                *)

(* C11: the forest a predictProba call can be served by is always a whole  *)
(* forest of numTrees trees: while train builds its trees the current      *)
(* forest stays what it was, and it is replaced in one step, after the     *)
(* loop over the trees has ended, by the forest of the trees built.        *)
C11_ForestComplete ==
    /\ [](trainedForest.trained
             => Len(trainedForest.trees) = rf.options.numTrees)
    /\ [][trainedForest' # trainedForest
             => /\ rf.phase = "running"
                /\ Len(rf.trees) = rf.options.numTrees
                /\ rf'.phase = "returned"
                /\ trainedForest' = [trained |-> TRUE, trees |-> rf.trees]]_vars
    /\ [][(replies' # replies /\ replies' # <<>>
              /\ replies'[Len(replies')].op = "predictProba")
             => /\ trainedForest' = trainedForest
                /\ rf.phase # "running"
                /\ Len(trainedForest.trees) = rf.options.numTrees]_vars

\* train has built the first of two trees, a tree with a split, and the
\* current forest is still the whole forest of the earlier train
C11_Witness ==
    /\ rf.phase = "running"
    /\ rf.options.numTrees = 2
    /\ Len(rf.trees) = 1
    /\ IsInternal(rf.trees[1])
    /\ trainedForest = EarlierForest(rf.options)

\* the training set of the second end-to-end scenario: points with the
\* features f1 and the label 1 and points with the features f0 and the
\* label 0, some of each
TwoClusters(data, f1, f0) ==
    /\ f1 # f0
    /\ \A k \in 1..Len(data) :
          \/ data[k] = [features |-> f1, label |-> 1]
          \/ data[k] = [features |-> f0, label |-> 0]
    /\ \E k \in 1..Len(data) : data[k].label = 1
    /\ \E k \in 1..Len(data) : data[k].label = 0

\* train has returned the forest of rf.data
Trained == rf.phase = "returned" /\ trainedForest.trained

(* C12 as stated: for a training set of two clusters, with                 *)
(* minSamplesSplit = 2, maxDepth >= 1 and f1 and f0 different in every     *)
(* feature, predictProba(f1, 1) > predictProba(f0, 1) whatever the         *)
(* bootstrap samples are.                                                  *)
C12_ProbaGreater ==
    \A f1, f0 \in FeatureVectors :
        (/\ Trained
         /\ TwoClusters(rf.data, f1, f0)
         /\ rf.options.minSamplesSplit = 2
         /\ rf.options.maxDepth >= 1
         /\ \A i \in 1..Len(f1) : f1[i] # f0[i])
        => RatLess(forestPredictProba(trainedForest.trees, f0, 1),
                   forestPredictProba(trainedForest.trees, f1, 1))

(* C12 amended: for a training set of two clusters                         *)
(* predictProba(f1, 1) >= predictProba(f0, 1) whatever the bootstrap       *)
(* samples and the options are, and it is greater exactly when the root    *)
(* of at least one tree is a split.                                        *)
C12_ProbaNotLess ==
    \A f1, f0 \in FeatureVectors :
        (Trained /\ TwoClusters(rf.data, f1, f0))
        => LET p1 == forestPredictProba(trainedForest.trees, f1, 1)
               p0 == forestPredictProba(trainedForest.trees, f0, 1)
           IN  /\ ~RatLess(p1, p0)
               /\ RatLess(p0, p1)
                     <=> \E t \in 1..Len(trainedForest.trees) :
                            IsInternal(trainedForest.trees[t])

\* a forest of two trees for two clusters: the first tree is a split, the
\* second one a leaf of a bootstrap sample with one class
C12_Witness ==
    /\ Trained
    /\ TwoClusters(rf.data, <<1, 0>>, <<0, 2>>)
    /\ Len(trainedForest.trees) = 2
    /\ IsInternal(trainedForest.trees[1])
    /\ ~IsInternal(trainedForest.trees[2])
    /\ RatEq(forestPredictProba(trainedForest.trees, <<0, 2>>, 1), Rat(1, 2))
    /\ RatEq(forestPredictProba(trainedForest.trees, <<1, 0>>, 1), Rat(1, 1))

RECURSIVE SumOfValues(_, _)
\* the sum of the values of a distribution over the keys in S
SumOfValues(distribution, S) ==
    IF S = {} THEN Rat(0, 1)
    ELSE LET key == CHOOSE x \in S : TRUE
         IN  RatAdd(distribution[key], SumOfValues(distribution, S \ {key}))

\* a distribution with values in [0, 1] that sum to 1
SumsToOne(distribution) ==
    /\ \A key \in DOMAIN distribution :
          /\ ~RatLess(distribution[key], Rat(0, 1))
          /\ ~RatLess(Rat(1, 1), distribution[key])
    /\ RatEq(SumOfValues(distribution, DOMAIN distribution), Rat(1, 1))

\* the trees train has built so far and the trees of the current forest
TreesBuilt ==
    RangeOf(rf.trees)
        \cup (IF trainedForest.trained THEN RangeOf(trainedForest.trees) ELSE {})

C13_NonEmptySumsToOne ==
    Len(rf.data) > 0 =>
        \A root \in TreesBuilt : \A features \in FeatureVectors :
            SumsToOne(treePredictProbaAll(root, features))

\* a tree with a split whose two leaves have one class each
C13_Witness ==
    /\ Trained
    /\ \E root \in TreesBuilt :
          /\ IsInternal(root)
          /\ DOMAIN treePredictProbaAll(root, <<1, 0>>) = {"1"}
          /\ DOMAIN treePredictProbaAll(root, <<0, 2>>) = {"0"}
    /\ \E root \in TreesBuilt :
          DOMAIN treePredictProbaAll(root, <<1, 0>>) = {"0", "1"}

\* every point of the training set has the label c, and there is a point
OneClass(data, c) ==
    /\ Len(data) > 0
    /\ \A k \in 1..Len(data) : data[k].label = c

(* C14 as stated: the forest of a training set that is not empty and has   *)
(* the class c only returns c, the number, from predict for every feature  *)
(* vector.                                                                 *)
C14_PredictReturnsClass ==
    \A c \in Labels : \A features \in FeatureVectors :
        (Trained /\ OneClass(rf.data, c))
        => forestPredict(trainedForest.trees, features) = Num(c)

\* what the code returns: the property key of c, a string
C14_PredictReturnsKey ==
    \A c \in Labels : \A features \in FeatureVectors :
        (Trained /\ OneClass(rf.data, c))
        => /\ forestPredict(trainedForest.trees, features) = Str(Key(c))
           /\ \A t \in 1..Len(trainedForest.trees) :
                 /\ ~IsInternal(trainedForest.trees[t])
                 /\ treePredict(trainedForest.trees[t], features) = Str(Key(c))

\* a forest of two trees for three points of class 0
C14_Witness ==
    /\ Trained
    /\ OneClass(rf.data, 0)
    /\ Len(rf.data) = 3
    /\ Len(trainedForest.trees) = 2
    /\ \E k \in 1..Len(rf.data) : rf.data[k].features # rf.data[1].features

----------------------------------------------------------------------------
(* Claims about the scores and the order of imagesSorted                   *)

\* +1 for a liked file, -1 for a disliked file, 0 for a file without label
Sign(f) ==
    IF Label(f) = "liked" THEN 1 ELSE IF Label(f) = "disliked" THEN -1 ELSE 0

RECURSIVE SignedSimilarity(_, _)
\* the sum over the files f <= k that have an embedding of
\* Sign(f) * cosineSimilarity(image, f)
SignedSimilarity(file, k) ==
    IF k = 0 THEN 0
    ELSE SignedSimilarity(file, k - 1)
         + (IF k \in DOMAIN imagesWithEmbeddings
            THEN Sign(k) * cosineSimilarity(imagesWithEmbeddings[file],
                                            imagesWithEmbeddings[k])
            ELSE 0)

(* C15: the similarity score of an image is undefined exactly when the     *)
(* image has no embedding; otherwise it is the sum of the cosine           *)
(* similarities to the liked images that have an embedding minus the sum   *)
(* of those to the disliked images that have an embedding, not divided by  *)
(* anything; images without label or without embedding add nothing.        *)
C15_SimilarityScore ==
    Rendered =>
        \A i \in 1..Len(grid) :
            IF grid[i].file \in DOMAIN imagesWithEmbeddings
            THEN grid[i].score = Num(SignedSimilarity(grid[i].file, MaxFiles))
            ELSE grid[i].score = Undefined

\* three images: a liked one with the score 1 (itself, the disliked one is
\* orthogonal), a disliked one with the score -1 and a liked one that has
\* no embedding and no score
C15_Witness ==
    /\ Rendered
    /\ Len(grid) = 3
    /\ \E i, j, k \in 1..3 :
          /\ Label(grid[i].file) = "liked" /\ grid[i].score = Num(1)
          /\ Label(grid[j].file) = "disliked" /\ grid[j].score = Num(-1)
          /\ Label(grid[k].file) = "liked" /\ grid[k].score = Undefined

\* the score of the active strategy for a rendered image
ActiveScore(i) ==
    IF sortingMethod = "forest" THEN MapGet(imageForestPredictions, i.file)
    ELSE i.score

(* C16: within one label group the images that have a score of the active  *)
(* strategy appear in non-increasing order of that score.                  *)
C16_ScoreDescending ==
    Rendered =>
        \A a, b \in 1..Len(grid) :
            (/\ a < b
             /\ Label(grid[a].file) = Label(grid[b].file)
             /\ ActiveScore(grid[a]).kind = "number"
             /\ ActiveScore(grid[b]).kind = "number")
            => ActiveScore(grid[a]).num >= ActiveScore(grid[b]).num

\* the forest strategy brings a later image of the list with probability 1
\* before an earlier one of the same group with probability 0
C16_Witness ==
    /\ Rendered
    /\ sortingMethod = "forest"
    /\ \E a, b \in 1..Len(grid) :
          /\ a < b
          /\ grid[a].file > grid[b].file
          /\ Label(grid[a].file) = Label(grid[b].file)
          /\ ActiveScore(grid[a]) = Num(100)
          /\ ActiveScore(grid[b]) = Num(0)

\* the place of a file in the image list
PlaceOf(file) == CHOOSE k \in 1..Len(images) : images[k] = file

(* C17: two images of one label group that both have no score, or have     *)
(* the same score, are rendered in the order they have in the image list.  *)
C17_StableOrder ==
    Rendered =>
        \A a, b \in 1..Len(grid) :
            (/\ a < b
             /\ Label(grid[a].file) = Label(grid[b].file)
             /\ ActiveScore(grid[a]) = ActiveScore(grid[b]))
            => PlaceOf(grid[a].file) < PlaceOf(grid[b].file)

\* three images of one group: the first and the third of the list have the
\* same score, the second has none
C17_Witness ==
    /\ Rendered
    /\ Len(grid) = 3
    /\ \A a \in 1..3 : Label(grid[a].file) = "liked"
    /\ \E a, b \in 1..3 :
          /\ a < b
          /\ grid[a].file = images[1] /\ grid[b].file = images[3]
          /\ ActiveScore(grid[a]).kind = "number"
          /\ ActiveScore(grid[a]) = ActiveScore(grid[b])
    /\ \E c \in 1..3 :
          grid[c].file = images[2] /\ ActiveScore(grid[c]) = Undefined

----------------------------------------------------------------------------
(* Claims about the version the worker's train returns                     *)

\* this step is the worker answering a train call
TrainAnswered ==
    /\ Len(replies') = Len(replies) + 1
    /\ replies'[Len(replies')].op = "train"

(* C18 as stated: a train call that completes after another one returns a  *)
(* version different from, and not smaller than, the version the earlier   *)
(* call returned (`now` holds the version of the earlier call).            *)
C18_VersionsDiffer ==
    [][(TrainAnswered /\ trainedForest.trained /\ now < MaxClock)
          => replies'[Len(replies')].value > now]_vars

\* what holds: a later version is not smaller, as long as the clock
\* Date.now() reads is not set back
C18_VersionsNotSmaller ==
    [][(TrainAnswered /\ trainedForest.trained)
          => replies'[Len(replies')].value >= now]_vars

\* two train calls have completed with the same version: both answers are
\* on their way to the page
C18_Witness ==
    \E j, k \in 1..Len(replies) :
        /\ j < k
        /\ replies[j].op = "train" /\ replies[k].op = "train"
        /\ replies[j].value = replies[k].value

----------------------------------------------------------------------------
(* Claims about tree induction                                             *)

RECURSIVE Induced(_, _, _, _)
\* node is what the induction rule allows for data at depth: a leaf when
\* depth is maxDepth, data has fewer than minSamplesSplit points, the
\* labels are all the same or the split search over the selected features
\* finds nothing; otherwise the best split of a selection of features,
\* with the children induced at depth + 1 from the points at or below the
\* threshold and from the points above it
Induced(node, data, depth, options) ==
    LET stops == \/ depth = options.maxDepth
                 \/ Len(data) < options.minSamplesSplit
                 \/ \A j, k \in 1..Len(data) : data[j].label = data[k].label
        selections == SelectedFeatures(Len(data[1].features), options.numFeatures)
    IN  IF ~IsInternal(node)
        THEN stops \/ \E sel \in selections : findBestSplit(data, sel) = Null
        ELSE /\ ~stops
             /\ \E sel \in selections :
                   LET split == findBestSplit(data, sel)
                   IN  /\ split # Null
                       /\ split.featureIndex = node.featureIndex
                       /\ split.threshold = node.threshold
             /\ LET below == {k \in 1..Len(data) :
                                 2 * data[k].features[node.featureIndex]
                                     <= node.threshold.num}
                    above == {k \in 1..Len(data) :
                                 2 * data[k].features[node.featureIndex]
                                     > node.threshold.num}
                    left == SelectSeq(data, LAMBDA d :
                                2 * d.features[node.featureIndex]
                                    <= node.threshold.num)
                    right == SelectSeq(data, LAMBDA d :
                                2 * d.features[node.featureIndex]
                                    > node.threshold.num)
                IN  /\ node.threshold.den = 2
                    /\ below \cap above = {}
                    /\ below \cup above = 1..Len(data)
                    /\ Len(left) = Cardinality(below)
                    /\ Len(right) = Cardinality(above)
                    /\ Induced(node.left, left, depth + 1, options)
                    /\ Induced(node.right, right, depth + 1, options)

RECURSIVE DepthOf(_)
\* the depth of the deepest leaf below node
DepthOf(node) ==
    IF ~IsInternal(node) THEN 0
    ELSE 1 + (IF DepthOf(node.left) >= DepthOf(node.right)
              THEN DepthOf(node.left) ELSE DepthOf(node.right))

(* C19: when train starts its loop, every tree createDecisionTree can      *)
(* build from a bootstrap sample of the training set follows the induction *)
(* rule at every node (a leaf exactly in the four cases, otherwise         *)
(* children at depth + 1 from the two parts of the node's data), and no    *)
(* leaf of a tree train has built lies deeper than maxDepth.               *)
C19_TreeInduction ==
    /\ (rf.phase = "running" /\ rf.trees = <<>>)
          => \A baggedData \in Bootstrap(rf.data) :
                \A root \in createDecisionTree(baggedData, rf.options) :
                    Induced(root, baggedData, 0, rf.options)
    /\ \A root \in TreesBuilt : DepthOf(root) <= rf.options.maxDepth

\* a tree of depth 2 = maxDepth: the root and its right child are splits;
\* another tree for the same options is a leaf at the root
C19_Witness ==
    /\ rf.phase = "running"
    /\ rf.options.maxDepth = 2
    /\ Len(rf.trees) = 2
    /\ DepthOf(rf.trees[1]) = 2
    /\ ~IsInternal(rf.trees[2])

RECURSIVE Shrinks(_, _)
\* every call of buildTree below node, a node built for data, is made for
\* fewer points than the call that makes it
Shrinks(node, data) ==
    \/ ~IsInternal(node)
    \/ LET left == SelectSeq(data, LAMBDA d :
                       2 * d.features[node.featureIndex] <= node.threshold.num)
           right == SelectSeq(data, LAMBDA d :
                        2 * d.features[node.featureIndex] > node.threshold.num)
       IN  /\ Len(left) < Len(data)
           /\ Len(right) < Len(data)
           /\ Shrinks(node.left, left)
           /\ Shrinks(node.right, right)

(* C20: train terminates: when its loop starts, every tree it can build    *)
(* from a bootstrap sample makes each recursive call of buildTree for      *)
(* fewer points than its caller has, the loop over the trees never holds   *)
(* more than numTrees trees, and a train that runs returns, with the       *)
(* forest of its numTrees trees as the current forest.                     *)
C20_TrainTerminates ==
    /\ []((rf.phase = "running" /\ rf.trees = <<>>)
             => \A baggedData \in Bootstrap(rf.data) :
                   \A root \in createDecisionTree(baggedData, rf.options) :
                       Shrinks(root, baggedData))
    /\ [](Len(rf.trees) <= rf.options.numTrees)
    /\ (rf.phase = "running")
          ~> (/\ rf.phase = "returned"
              /\ Len(rf.trees) = rf.options.numTrees
              /\ trainedForest = [trained |-> TRUE, trees |-> rf.trees])

\* train has returned a forest of two trees of depth 2 built for three
\* points
C20_Witness ==
    /\ Trained
    /\ Len(rf.data) = 3
    /\ Len(trainedForest.trees) = 2
    /\ \A t \in 1..2 : DepthOf(trainedForest.trees[t]) = 2

----------------------------------------------------------------------------
(* Claims about the forest scores the page shows                           *)

\* the learned strategy has what it needs: the worker proxy, images, a
\* label, and an embedding for every labeled image
ForestDue ==
    forestTrainer /\ TrainGuard(images, imagePreference, imagesWithEmbeddings,
                                sortingMethod)

\* the current forest of the worker was trained on the current labels and
\* embeddings
ForestIsCurrent ==
    /\ trainedForest.trained
    /\ LET call == TrainCall(0, imagePreference, imagesWithEmbeddings)
       IN  /\ trainedForest.trainingSet = call.trainingSet
           /\ trainedForest.predictions = call.predictions

\* the map holds, for every image with an embedding, what the current
\* forest answers for it
ScoresOfForest(map) ==
    map = [f \in DOMAIN imagesWithEmbeddings |->
              trainedForest.proba[imagesWithEmbeddings[f]]]

(* C21: if images, labels, embeddings and strategy stop changing, then     *)
(* from some time on, whenever the learned strategy has what it needs, the *)
(* forest scores the grid is ordered by are those of a forest trained on   *)
(* the current labels.                                                     *)
C21_ScoresCatchUp ==
    <>[][UNCHANGED <<images, imagePreference, sortingMethod,
                     imagesWithEmbeddings>>]_vars
        => <>[](ForestDue
                  => /\ ForestIsCurrent
                     /\ ScoresOfForest(imageForestPredictions)
                     /\ grid = imagesSorted)

\* the scores shown are those of the forest of the second train call: the
\* first image was liked, then the second one was disliked as well
C21_Witness ==
    /\ ForestDue
    /\ ForestIsCurrent
    /\ trainedForest.predictions = <<1, 0>>
    /\ ScoresOfForest(imageForestPredictions)
    /\ imageForestPredictions[images[1]] = 100
    /\ imageForestPredictions[images[2]] = 0
    /\ grid = imagesSorted

(* C22: every batch of forest predictions, while its answers come in and   *)
(* once it is published, is computed by one forest, the current forest of  *)
(* the worker, and that forest was trained on the labels and embeddings of *)
(* the key the batch belongs to, the current ones.                         *)
C22_BatchOfOneForest ==
    (DOMAIN pd.results # {} \/ pd.data.defined)
        => /\ ForestIsCurrent
           /\ \A f \in DOMAIN pd.results :
                  pd.results[f] = trainedForest.proba[imagesWithEmbeddings[f]]
           /\ pd.data.defined => ScoresOfForest(pd.data.map)

\* a published batch of two different scores, of a forest trained on a like
\* and a dislike after the clock of the worker has moved on
C22_Witness ==
    /\ pd.data.defined
    /\ fw.data.defined
    /\ fw.data.version = MaxClock
    /\ Cardinality(RangeOf(trainedForest.predictions)) = 2
    /\ \E f, g \in DOMAIN pd.data.map : pd.data.map[f] # pd.data.map[g]

----------------------------------------------------------------------------
(* Claims about the progress counter                                       *)

(* C23: in every state the page can render, the progress counter is at     *)
(* least 0 and at most the number of images of the current image set.      *)
C23_FinishedInRange == 0 <= finished /\ finished <= Len(images)

----------------------------------------------------------------------------
(* Claims about the thumbnails                                             *)

(* C24: createThumbnail is called at most once for a File, whatever        *)
(* renders of its cell happen while the call is pending or after it has    *)
(* resolved or failed: the File has a promise in cacheRef exactly when the *)
(* one call was made, and every memo computed with resizers holds it.      *)
C24_CreatedAtMostOnce ==
    /\ \A f \in DOMAIN created : created[f] = 1
    /\ DOMAIN created = DOMAIN cacheRef
    /\ \A f \in DOMAIN imageUrlPromise :
          imageUrlPromise[f] # "undefined" => f \in DOMAIN cacheRef

\* the cell of one File was rendered again while its call was pending, and
\* the cell of another File holds the promise that failed, found in the
\* cache by a later render
C24_Witness ==
    \E f, g \in DOMAIN imageUrlPromise \cap DOMAIN cacheRef :
        /\ cacheRef[f] = "pending" /\ imageUrlPromise[f] = "cached"
        /\ cacheRef[g] = "rejected" /\ imageUrlPromise[g] = "cached"
        /\ created[f] = 1 /\ created[g] = 1

====
